---- MODULE Spec2Model ----
(***************************************************************************)
(* Application lifecycle of the job-board API: submit, update-status,      *)
(* withdraw and list-by-job, as implemented by                             *)
(* controllers/applicationController.js, routes/applications.js,           *)
(* models/Application.js, models/Job.js and the role middleware; file      *)
(* intake of middleware/uploadMiddleware.js; authentication of             *)
(* middleware/auth.js; account deletion and company creation.              *)
(***************************************************************************)
EXTENDS Integers, Sequences, FiniteSets, Bags, TLC

\* ------------------------------------------------------------------ bounds
MaxApps == 2        \* applications that may be stored
MaxUpdates == 2     \* successful status changes over all applications
MaxCompanies == 3   \* create-company requests that get past the first lookup
MaxSkills == 2      \* entries of a skills list
MaxTime == 3        \* clock readings 0 .. MaxTime
MaxTokens == 3      \* password-reset tokens issued
MaxLogins == 3      \* login attempts of a client that get past loginLimiter

\* ------------------------------------------------------------------ actors
Candidates == {"c1", "c2"}
Employers == {"e1", "e2"}
Admins == {"ad"}
Users == Candidates \cup Employers \cup Admins

role(u) ==
  IF u \in Candidates THEN "candidate"
  ELSE IF u \in Employers THEN "employer" ELSE "admin"

Jobs == {"j1"}

\* job ids a request may name: the stored jobs and one id of no document
JobIds == Jobs \cup {"j0"}

\* jobSchema.postedBy: the only owner field a Job document has
postedBy(j) == "e1"

\* a Job document has no path named employer: reading it gives undefined
UNDEFINED == "undefined"
jobEmployer(j) == UNDEFINED

\* ------------------------------------------------------------------ schema
\* applicationSchema.status enum
StatusEnum ==
  {"pending", "reviewing", "shortlisted", "interviewed", "offered",
   "rejected", "withdrawn"}

\* applicationSchema.timeline[].status enum
TimelineStatusEnum ==
  {"submitted", "reviewing", "shortlisted", "interviewed", "offered",
   "rejected", "withdrawn"}

\* applicationSchema.expectedSalary.currency enum
CurrencyEnum == {"USD", "EUR", "GBP", "CAD", "AUD", "JPY", "CNY", "INR"}

\* an absent value of a body field or of a stored path
NONE == "none"

\* the status a loaded document shows: the schema default fills an unset path
statusDefault(stored) == IF stored = NONE THEN "pending" ELSE stored

\* enum validators accept an undefined value
validStatus(s) == s = NONE \/ s \in StatusEnum
validTimelineStatus(s) == s = NONE \/ s \in TimelineStatusEnum

\* personalInfo.phone validator /^\+?[\d\s\-()]{10,}$/ on the request's phone
validPhone(pi) == pi # "badPhone"

\* request body values used by the handlers
StatusInputs ==
  {"pending", "reviewing", "shortlisted", "offered", "rejected", "withdrawn",
   NONE}
\* the notes an update-status request carries
NotesInputs == {"strong portfolio"}

\* ------------------------------------------------------------ file intake
\* multer limits.files: file parts one request may carry
filesLimit == 3

\* upload.fields: the slots and the files each may hold
Slots == {"resume", "portfolio", "additionalDocuments"}
maxCount(field) ==
  CASE field = "resume" -> 1
    [] field = "portfolio" -> 1
    [] field = "additionalDocuments" -> 5

\* one file part: slot, declared MIME type, extension of the original name,
\* and whether it is larger than limits.fileSize (5 MB)
File(field, mimetype, ext, tooLarge) ==
  [field |-> field, mimetype |-> mimetype, ext |-> ext, tooLarge |-> tooLarge]

\* String.prototype.toLowerCase, on the strings of the model
toLowerCase(ext) ==
  CASE ext = ".PDF" -> ".pdf"
    [] ext = ".Exe" -> ".exe"
    [] ext = "JS" -> "js"
    [] ext = "SQL" -> "sql"
    [] OTHER -> ext

DocMimeTypes ==
  {"application/pdf", "application/msword",
   "application/vnd.openxmlformats-officedocument.wordprocessingml.document"}
ArchiveImageMimeTypes ==
  {"application/zip", "application/x-zip-compressed",
   "application/x-rar-compressed", "image/jpeg", "image/png"}

\* fileFilter's allowedMimeTypes[file.fieldname] || []
allowedMimeTypes(field) ==
  CASE field = "resume" -> DocMimeTypes
    [] field \in {"portfolio", "additionalDocuments"} ->
         DocMimeTypes \cup ArchiveImageMimeTypes
    [] OTHER -> {}

\* fileFilter's allowedExtensions[file.fieldname] || []
allowedExtensions(field) ==
  CASE field = "resume" -> {".pdf", ".doc", ".docx"}
    [] field \in {"portfolio", "additionalDocuments"} ->
         {".pdf", ".doc", ".docx", ".zip", ".rar", ".jpg", ".jpeg", ".png"}
    [] OTHER -> {}

\* a filter that is content with one of the two checks
fileFilterEither(file) ==
  \/ file.mimetype \in allowedMimeTypes(file.field)
  \/ toLowerCase(file.ext) \in allowedExtensions(file.field)

\* fileFilter: the MIME type and the lower-cased extension must both be listed
fileFilter(file) ==
  /\ file.mimetype \in allowedMimeTypes(file.field)
  /\ toLowerCase(file.ext) \in allowedExtensions(file.field)

\* files of one slot among the first n parts
CountField(files, n, field) ==
  Cardinality({k \in 1 .. n : files[k].field = field})

\* uploadApplicationFiles, part by part: the error that aborts the upload, or
\* none and the files written to storage (req.files)
RECURSIVE uploadFrom(_, _, _)
uploadFrom(files, k, stored) ==
  IF k > Len(files) THEN [err |-> NONE, stored |-> stored]
  ELSE IF k > filesLimit THEN [err |-> "LIMIT_FILE_COUNT", stored |-> << >>]
  ELSE IF \/ files[k].field \notin Slots
          \/ CountField(files, k - 1, files[k].field) >= maxCount(files[k].field)
    THEN [err |-> "LIMIT_UNEXPECTED_FILE", stored |-> << >>]
  ELSE IF ~fileFilter(files[k])
    THEN [err |-> "INVALID_FILE_TYPE", stored |-> << >>]
  ELSE IF files[k].tooLarge THEN [err |-> "LIMIT_FILE_SIZE", stored |-> << >>]
  ELSE uploadFrom(files, k + 1, Append(stored, files[k]))

uploadApplicationFiles(files) == uploadFrom(files, 1, << >>)

\* req.files.resume holds a file
HasResume(files) == \E k \in 1 .. Len(files) : files[k].field = "resume"

\* file parts used in requests
Pdf(field) == File(field, "application/pdf", ".pdf", FALSE)
ResumeOnly == <<Pdf("resume")>>

\* multipart bodies of POST /applications: personalInfo, files, salary
BodyFiles(pi, files, salary) ==
  [personalInfo |-> pi, hasResume |-> HasResume(files), files |-> files,
   salary |-> salary]
Body(pi, hasResume, salary) ==
  BodyFiles(pi, IF hasResume THEN ResumeOnly ELSE << >>, salary)

\* bodies whose files differ: accepted sets, and one of each upload error
UploadBodies ==
  {BodyFiles("valid", <<Pdf("resume"), File("portfolio", "image/png", ".png", FALSE)>>, NONE),
   BodyFiles("valid", <<File("resume", "application/pdf", ".PDF", FALSE)>>, NONE),
   BodyFiles("valid", <<File("portfolio", "application/zip", ".zip", FALSE)>>, NONE),
   BodyFiles("valid", <<File("resume", "application/x-msdownload", ".exe", FALSE)>>, NONE),
   BodyFiles("valid", <<File("resume", "application/pdf", ".Exe", FALSE)>>, NONE),
   BodyFiles("valid", <<File("resume", "application/x-msdownload", ".pdf", FALSE)>>, NONE),
   BodyFiles("valid", <<Pdf("resume"), File("portfolio", "image/png", ".exe", FALSE)>>, NONE),
   BodyFiles("valid", <<File("resume", "application/pdf", ".pdf", TRUE)>>, NONE),
   BodyFiles("valid", <<Pdf("resume"), Pdf("additionalDocuments"),
                        Pdf("additionalDocuments")>>, NONE),
   BodyFiles("valid", <<Pdf("resume"), Pdf("portfolio"),
                        Pdf("additionalDocuments"), Pdf("additionalDocuments")>>,
             NONE),
   BodyFiles("valid", <<Pdf("resume"), Pdf("resume")>>, NONE),
   BodyFiles("valid", <<Pdf("resume"), Pdf("avatar")>>, NONE),
   BodyFiles("valid", <<Pdf("resume"), Pdf("additionalDocuments"),
                        Pdf("additionalDocuments"), Pdf("additionalDocuments"),
                        Pdf("additionalDocuments"), Pdf("additionalDocuments")>>,
             NONE)}

SubmitBodies ==
  {Body("valid", TRUE, NONE), Body("valid", FALSE, NONE),
   Body("blankName", TRUE, NONE), Body("blankName", FALSE, NONE),
   Body("badPhone", TRUE, NONE), Body("valid", TRUE, "5000")}

\* ------------------------------------------------------------------ state
VARIABLES
  applications,   \* Application collection: sequence of documents, id = index
  jobApplications,\* Job.applications back-reference, per job
  inflight,       \* submit requests between the duplicate lookup and the insert
  updates,        \* per application: number of successful status changes
  disk,           \* uploads directory: the files stored, as a bag
  isActive,       \* User.isActive, per user
  companies,      \* Company collection: sequence of documents
  creating,       \* create-company requests between a lookup and the insert
  scoring,        \* a compatibility score calculation: its inputs and result
  loginAttempts,  \* global.loginAttempts, per client IP: << >> or one record
  now,            \* Date.now()
  pendingLogins,  \* per client IP: login attempts past loginLimiter, undecided
  failedLogins,   \* per client IP: the times its failed logins were recorded
  users,          \* User documents: password and password-reset fields
  issuedTokens,   \* the password-reset tokens forgot-password has signed
  usedTokens      \* those that reset a password since they were last signed

applicationVars == <<applications, jobApplications, inflight, updates, disk>>
accountVars == <<isActive, companies, creating>>
scoreVars == <<scoring>>
limiterVars == <<loginAttempts, now, pendingLogins, failedLogins>>
resetVars == <<users, issuedTokens, usedTokens>>
otherVars == <<scoreVars, limiterVars, resetVars>>
vars == <<applicationVars, accountVars, otherVars>>

\* no score calculation yet: an application without skills and experience, a
\* job-requirements object without skills and experience level, no result
NoScoring ==
  [skills |-> << >>, experience |-> [previousPositions |-> << >>],
   jobRequirements |-> [location |-> "remote"], result |-> << >>]

\* client addresses
Ips == {"ip1", "ip2"}

\* no login attempt yet: global.loginAttempts is an empty Map
InitLimiter ==
  /\ loginAttempts = [ip \in Ips |-> << >>]
  /\ now = 0
  /\ pendingLogins = [ip \in Ips |-> 0]
  /\ failedLogins = [ip \in Ips |-> << >>]

\* the candidates' User documents as registered, no reset token signed
InitReset ==
  /\ users = [u \in Candidates |->
                [password |-> "initial", passwordResetToken |-> << >>,
                 passwordResetExpires |-> << >>]]
  /\ issuedTokens = {}
  /\ usedTokens = {}

\* no application, no upload
InitApplication ==
  /\ applications = << >>
  /\ jobApplications = [j \in Jobs |-> << >>]
  /\ inflight = EmptyBag
  /\ updates = << >>
  /\ disk = EmptyBag

\* the users as registered, no company
InitAccount ==
  /\ isActive = [u \in Users |-> TRUE]
  /\ companies = << >>
  /\ creating = EmptyBag

Init ==
  /\ InitApplication
  /\ InitAccount
  /\ scoring = NoScoring
  /\ InitLimiter
  /\ InitReset

\* ------------------------------------------------------------- middleware
\* authorize(...roles): 403 unless the actor's role is listed
authorize(roles, u) == role(u) \in roles

\* global error handler: an AppError answers with its status code, any other
\* error is an internal error; storage validation failures are client errors
errorHandler(err, statusCode) ==
  CASE err = "AppError" -> statusCode
    [] err = "ValidationError" -> 400
    [] OTHER -> 500

\* what a handler answers: the error raised (none on success) and the status
Response(err, code) == [err |-> err, code |-> code]
AppError(code) == Response("AppError", errorHandler("AppError", code))
Thrown(err) == Response(err, errorHandler(err, 0))
Success(code) == Response(NONE, code)
Continue == Response(NONE, 0)

\* validateApplicationWithFiles without its check of req.files.resume
validateWithoutResume(pi, hasResume) ==
  IF pi = NONE THEN Response("BadRequest", 400)
  ELSE IF pi = "blankName" THEN Response("BadRequest", 400)
  ELSE Continue

\* validateApplicationWithFiles: answers 400 itself or calls next()
validateApplicationWithFiles(pi, hasResume) ==
  IF pi = NONE THEN Response("BadRequest", 400)
  ELSE IF ~hasResume THEN Response("BadRequest", 400)
  ELSE IF pi = "blankName" THEN Response("BadRequest", 400)
  ELSE Continue

\* handleUploadError: a multer error and a rejected file type answer 400, any
\* other error goes to the global error handler
handleUploadError(err) ==
  IF err \in {"LIMIT_FILE_SIZE", "LIMIT_FILE_COUNT", "LIMIT_UNEXPECTED_FILE",
              "INVALID_FILE_TYPE"}
  THEN Response(err, 400)
  ELSE Thrown(err)

\* diskStorage: the stored file of one part, named after its slot and a
\* suffix unique to the request
StoredFile(actor, job, file) ==
  [actor |-> actor, job |-> job, field |-> file.field]

RECURSIVE SeqToBag(_)
SeqToBag(seq) ==
  IF seq = << >> THEN EmptyBag
  ELSE SetToBag({Head(seq)}) (+) SeqToBag(Tail(seq))

\* req.files as stored for the request
reqFiles(actor, job, files) ==
  [k \in 1 .. Len(files) |-> StoredFile(actor, job, files[k])]

\* a cleanup that acts on validation answers only
cleanupFilesOn400(stored, files, code) ==
  IF code = 400 THEN stored (-) SeqToBag(files) ELSE stored

\* cleanupFiles: res.send of an answer with status >= 400 unlinks req.files
cleanupFiles(stored, files, code) ==
  IF code >= 400 THEN stored (-) SeqToBag(files) ELSE stored

\* ------------------------------------------------------------ Application
Entry(status, notes, updatedBy) ==
  [status |-> status, notes |-> notes, updatedBy |-> updatedBy]

\* pre('save') writing the document's own status into the submission entry
preSaveOwnStatus(timeline, status, isNew, statusModified) ==
  LET t1 == IF statusModified /\ ~isNew
            THEN Append(timeline,
                        Entry(status, <<"Status changed to ", status>>, NONE))
            ELSE timeline
  IN IF isNew
     THEN Append(t1, Entry(status, <<"Application submitted">>, NONE))
     ELSE t1

\* applicationSchema.pre('save'): a changed status of a stored document adds
\* an entry, a new document gets the entry of its submission
preSave(timeline, status, isNew, statusModified) ==
  LET t1 == IF statusModified /\ ~isNew
            THEN Append(timeline,
                        Entry(status, <<"Status changed to ", status>>, NONE))
            ELSE timeline
  IN IF isNew
     THEN Append(t1, Entry("submitted", <<"Application submitted">>, NONE))
     ELSE t1

postSaveAlways(backrefs, job, id) ==
  IF job \in Jobs
  THEN [backrefs EXCEPT ![job] = Append(@, id)]
  ELSE backrefs

\* applicationSchema.post('save'): add the id to the job's list if the job
\* exists and does not hold it yet
postSave(backrefs, job, id) ==
  IF job \in Jobs /\ \A i \in 1 .. Len(backrefs[job]) : backrefs[job][i] # id
  THEN [backrefs EXCEPT ![job] = Append(@, id)]
  ELSE backrefs

\* document.isModified('status') after this.status = newStatus
isModified(stored, newStatus) == stored # newStatus

\* validation run by save() on the paths updateStatus touched
validateUpdate(newStatus) ==
  validStatus(newStatus) /\ validTimelineStatus(newStatus)

\* updateStatus keeping only the newest entry instead of pushing it
updateStatusReplacing(doc, newStatus, notes, updatedBy) ==
  LET pushed == <<Entry(newStatus,
                        IF notes # "" THEN <<notes>>
                        ELSE <<"Status updated to ", newStatus>>,
                        updatedBy)>>
  IN [doc EXCEPT !.status = newStatus,
                 !.timeline = preSave(pushed, newStatus, FALSE,
                                      isModified(doc.status, newStatus))]

\* applicationSchema.methods.updateStatus followed by the save() it returns:
\* the document as stored afterwards
updateStatus(doc, newStatus, notes, updatedBy) ==
  LET pushed == Append(doc.timeline,
                       Entry(newStatus,
                             IF notes # "" THEN <<notes>>
                             ELSE <<"Status updated to ", newStatus>>,
                             updatedBy))
  IN [doc EXCEPT !.status = newStatus,
                 !.timeline = preSave(pushed, newStatus, FALSE,
                                      isModified(doc.status, newStatus))]

\* validation run by Application.create on the assembled document
validateCreate(pi, salary) ==
  /\ validStatus("pending")
  /\ validPhone(pi)
  /\ (salary # NONE => "MAD" \in CurrencyEnum)

\* the lookup querying a body field that does not exist (job: req.body.job)
findOneWrongField(apps, applicant, job) ==
  {i \in 1 .. Len(apps) : apps[i].applicant = applicant /\ apps[i].job = NONE}

\* Application.findOne({applicant, job})
findOne(apps, applicant, job) ==
  {i \in 1 .. Len(apps) : apps[i].applicant = applicant /\ apps[i].job = job}

\* applicationSchema.index({applicant: 1, job: 1}, {unique: true}): the insert
\* is refused when a stored document already has the pair
duplicateKey(apps, applicant, job) ==
  \E i \in 1 .. Len(apps) : apps[i].applicant = applicant /\ apps[i].job = job

\* the document Application.create stores
newApplication(applicant, job, files) ==
  [applicant |-> applicant, job |-> job, status |-> "pending",
   files |-> files,
   timeline |-> preSave(<< >>, "pending", TRUE, TRUE)]

\* successful status changes so far, over all applications
RECURSIVE Sum(_)
Sum(seq) == IF seq = << >> THEN 0 ELSE Head(seq) + Sum(Tail(seq))

\* ------------------------------------------------------ POST /applications
Request(actor, job, pi, files, salary) ==
  [actor |-> actor, job |-> job, personalInfo |-> pi, files |-> files,
   salary |-> salary]

\* the route's middleware and createApplication up to the duplicate lookup:
\* the error answered, or Continue
createApplicationChecks(actor, job, pi, hasResume) ==
  LET validated == validateApplicationWithFiles(pi, hasResume)
  IN
  IF ~authorize({"candidate", "admin"}, actor) THEN AppError(403)
  ELSE IF validated # Continue THEN validated
  ELSE IF role(actor) # "candidate" THEN AppError(403)
  ELSE IF job \notin Jobs THEN AppError(404)
  ELSE IF findOne(applications, actor, job) # {} THEN AppError(409)
  ELSE Continue

\* createApplication from the file processing on: the resume check, then
\* Application.create: validation, then the insert
\* under the unique index {applicant, job}; the catch block answers
createApplicationResult(q) ==
  IF ~HasResume(q.files) THEN AppError(400)
  ELSE IF ~validateCreate(q.personalInfo, q.salary)
    THEN Response("ValidationError", errorHandler("AppError", 400))
  ELSE IF duplicateKey(applications, q.actor, q.job)
    THEN Response("E11000", errorHandler("AppError", 500))
  ELSE Success(201)

\* POST /: authorize, cleanupFiles, upload, validateApplicationWithFiles and
\* createApplication up to the duplicate lookup: the answer, or Continue
submitResponse(actor, job, pi, files) ==
  LET upload == uploadApplicationFiles(files)
  IN IF ~authorize({"candidate", "admin"}, actor) THEN AppError(403)
     ELSE IF upload.err # NONE THEN handleUploadError(upload.err)
     ELSE createApplicationChecks(actor, job, pi, HasResume(files))

\* the files the request has on storage when its answer is sent: none when
\* authorize refused it or multer aborted the upload and removed its files
submitStored(actor, job, files) ==
  LET upload == uploadApplicationFiles(files)
  IN IF authorize({"candidate", "admin"}, actor) /\ upload.err = NONE
     THEN reqFiles(actor, job, upload.stored)
     ELSE << >>

createApplicationBegin(actor, job, pi, files, salary) ==
  LET r == submitResponse(actor, job, pi, files)
      written == submitStored(actor, job, files)
  IN /\ IF r # Continue
        THEN /\ disk' = cleanupFiles(disk (+) SeqToBag(written), written, r.code)
             /\ UNCHANGED inflight
        ELSE /\ Len(applications) + BagCardinality(inflight) < MaxApps
             /\ inflight' =
                  inflight (+) SetToBag({Request(actor, job, pi, written, salary)})
             /\ disk' = disk (+) SeqToBag(written)
     /\ UNCHANGED <<applications, jobApplications, updates, accountVars, otherVars>>

createApplicationInsert(q) ==
  /\ BagIn(q, inflight)
  /\ UNCHANGED <<accountVars, otherVars>>
  /\ inflight' = inflight (-) SetToBag({q})
  /\ disk' = cleanupFiles(disk, q.files, createApplicationResult(q).code)
  /\ IF createApplicationResult(q).code # 201
     THEN UNCHANGED <<applications, jobApplications, updates>>
     ELSE /\ applications' =
               Append(applications, newApplication(q.actor, q.job, q.files))
          /\ jobApplications' =
               postSave(jobApplications, q.job, Len(applications) + 1)
          /\ updates' = Append(updates, 0)

\* ------------------------------------------------ PUT /applications/:id/status
\* the route letting every status of the schema through
allowedStatusesAll ==
  {"pending", "reviewing", "shortlisted", "interviewed", "offered", "rejected",
   "withdrawn"}

\* the status values the route lets through
allowedStatuses ==
  {"pending", "reviewing", "shortlisted", "interviewed", "offered", "rejected"}

\* the inline check of the route: an absent status is not checked
statusRouteCheck(status) == status # NONE => status \in allowedStatuses

\* application.job.employer / job.employer as the handlers read it
employerOf(job) == IF job \in Jobs THEN jobEmployer(job) ELSE "null"

\* x.toString() throws a TypeError on undefined and on null
throwsOnToString(x) == x \in {UNDEFINED, "null"}

updateApplicationStatusResponse(actor, id, status) ==
  IF ~authorize({"employer", "admin"}, actor) THEN AppError(403)
  ELSE IF ~statusRouteCheck(status) THEN Response("BadRequest", 400)
  ELSE IF id \notin 1 .. Len(applications) THEN AppError(404)
  ELSE IF role(actor) # "admin"
          /\ throwsOnToString(employerOf(applications[id].job))
    THEN Thrown("TypeError")
  ELSE IF role(actor) # "admin" /\ employerOf(applications[id].job) # actor
    THEN AppError(403)
  ELSE IF ~validateUpdate(status) THEN Thrown("ValidationError")
  ELSE Success(200)

updateApplicationStatus(actor, id, status, notes) ==
  IF updateApplicationStatusResponse(actor, id, status).code # 200
  THEN UNCHANGED vars
  ELSE /\ Sum(updates) < MaxUpdates
       /\ applications' =
            [applications EXCEPT
               ![id] = updateStatus(applications[id], status, notes, actor)]
       /\ jobApplications' = postSave(jobApplications, applications[id].job, id)
       /\ updates' = [updates EXCEPT ![id] = @ + 1]
       /\ UNCHANGED <<inflight, disk, accountVars, otherVars>>

\* ---------------------------------------------- PUT /applications/:id/withdraw
\* the other withdrawal rule: only pending and reviewing may be withdrawn
withdrawOnlyEarly(actor, id) ==
  IF ~authorize({"candidate", "admin"}, actor) THEN AppError(403)
  ELSE IF id \notin 1 .. Len(applications) THEN AppError(404)
  ELSE IF applications[id].applicant # actor THEN AppError(403)
  ELSE IF statusDefault(applications[id].status) \notin {"pending", "reviewing"}
    THEN AppError(400)
  ELSE Success(200)

withdrawApplicationResponse(actor, id) ==
  IF ~authorize({"candidate", "admin"}, actor) THEN AppError(403)
  ELSE IF id \notin 1 .. Len(applications) THEN AppError(404)
  ELSE IF applications[id].applicant # actor THEN AppError(403)
  ELSE IF statusDefault(applications[id].status)
            \in {"offered", "rejected", "withdrawn"}
    THEN AppError(400)
  ELSE Success(200)

withdrawApplication(actor, id) ==
  IF withdrawApplicationResponse(actor, id).code # 200
  THEN UNCHANGED vars
  ELSE /\ Sum(updates) < MaxUpdates
       /\ applications' =
            [applications EXCEPT
               ![id] = updateStatus(applications[id], "withdrawn",
                                    "Application withdrawn by candidate", "null")]
       /\ jobApplications' = postSave(jobApplications, applications[id].job, id)
       /\ updates' = [updates EXCEPT ![id] = @ + 1]
       /\ UNCHANGED <<inflight, disk, accountVars, otherVars>>

\* ------------------------------------------------ GET /applications/job/:jobId
getJobApplicationsResponse(actor, job) ==
  IF ~authorize({"employer", "admin"}, actor) THEN AppError(403)
  ELSE IF job \notin Jobs THEN AppError(404)
  ELSE IF role(actor) # "admin" /\ throwsOnToString(jobEmployer(job))
    THEN Thrown("TypeError")
  ELSE IF role(actor) # "admin" /\ jobEmployer(job) # actor THEN AppError(403)
  ELSE Success(200)

\* the applications the handler finds for the job; it changes nothing
getJobApplications(actor, job) ==
  /\ getJobApplicationsResponse(actor, job).code \in {200, 403, 404, 500}
  /\ UNCHANGED vars

\* ------------------------------------------------- GET /applications/stats
\* Job.find({ employer: id }): the Job schema has no path employer; the
\* query layer either drops the unknown key, so that every job matches
\* (strictQuery on), or keeps it, so that no job does (strictQuery off)
jobFindByEmployer(e, strictQuery) ==
  IF strictQuery THEN Jobs ELSE {j \in Jobs : jobEmployer(j) = e}

\* Application.getApplicationStats(filters): one $group over the stored
\* documents that match, comparing the stored value of status
aggregateStats(ids) ==
  LET n(s) == Cardinality({i \in ids : applications[i].status = s})
  IN [totalApplications |-> Cardinality(ids),
      pendingApplications |-> n("pending"),
      reviewingApplications |-> n("reviewing"),
      shortlistedApplications |-> n("shortlisted"),
      rejectedApplications |-> n("rejected")]

\* the stats object of the answer
getApplicationStatsResponse(actor, strictQuery) ==
  IF role(actor) = "candidate"
  THEN LET ids == {i \in DOMAIN applications : applications[i].applicant = actor}
           n(s) == Cardinality({i \in ids :
                                  statusDefault(applications[i].status) = s})
       IN [total |-> Cardinality(ids), pending |-> n("pending"),
           reviewing |-> n("reviewing"), shortlisted |-> n("shortlisted"),
           interviewed |-> n("interviewed"), offered |-> n("offered"),
           rejected |-> n("rejected"), withdrawn |-> n("withdrawn")]
  ELSE LET ids == IF role(actor) = "employer"
                  THEN {i \in DOMAIN applications :
                          applications[i].job \in
                            jobFindByEmployer(actor, strictQuery)}
                  ELSE DOMAIN applications
       IN aggregateStats(ids)

getApplicationStats(actor) ==
  /\ \E strictQuery \in BOOLEAN :
       DOMAIN getApplicationStatsResponse(actor, strictQuery) # {}
  /\ UNCHANGED vars

\* ------------------------------------------------------------ specification
Next ==
  \/ \E u \in Users, j \in JobIds, b \in SubmitBodies :
       createApplicationBegin(u, j, b.personalInfo, b.files, b.salary)
  \/ \E q \in BagToSet(inflight) : createApplicationInsert(q)
  \/ \E u \in Users, id \in 1 .. MaxApps, s \in StatusInputs, n \in NotesInputs :
       updateApplicationStatus(u, id, s, n)
  \/ \E u \in Users, id \in 1 .. MaxApps : withdrawApplication(u, id)
  \/ \E u \in Users, j \in JobIds : getJobApplications(u, j)
  \/ \E u \in Users : getApplicationStats(u)

Spec == Init /\ [][Next]_vars

\* POST /applications alone, with every file set a request may carry
NextUpload ==
  \/ \E u \in Users, j \in JobIds, b \in SubmitBodies \cup UploadBodies :
       createApplicationBegin(u, j, b.personalInfo, b.files, b.salary)
  \/ \E q \in BagToSet(inflight) : createApplicationInsert(q)

SpecUpload == Init /\ [][NextUpload]_vars

\* ------------------------------------------------------------- auth
\* ids a token may carry: the stored users and one id of no document
UserIds == Users \cup {"gone"}

\* the Authorization header of a request: absent or not a Bearer header, a
\* Bearer header without a token part, a token jwt.verify rejects, an expired
\* token, or a verified token carrying a user id
TokenKinds == {"missing", "noTokenPart", "malformed", "expired", "valid"}
Token(kind, id) == [kind |-> kind, id |-> id]
Tokens == {Token(k, id) : k \in TokenKinds, id \in UserIds}

\* auth without its check of currentUser.isActive
authIgnoringActive(active, token) ==
  IF token.kind \in {"missing", "noTokenPart"} THEN AppError(401)
  ELSE IF token.kind = "malformed" THEN AppError(401)
  ELSE IF token.kind = "expired" THEN AppError(401)
  ELSE IF token.id \notin Users THEN AppError(401)
  ELSE Continue

\* auth under the stored isActive flags: 401, or Continue with req.user set
authWith(active, token) ==
  IF token.kind \in {"missing", "noTokenPart"} THEN AppError(401)
  ELSE IF token.kind = "malformed" THEN AppError(401)
  ELSE IF token.kind = "expired" THEN AppError(401)
  ELSE IF token.id \notin Users THEN AppError(401)
  ELSE IF ~active[token.id] THEN AppError(401)
  ELSE Continue

auth(token) == authWith(isActive, token)

\* req.user after auth: the user of the token, or none
reqUser(token) == IF auth(token) = Continue THEN token.id ELSE NONE

\* router: auth, then authorize(...roles)
protect(roles, token) ==
  IF auth(token) # Continue THEN auth(token)
  ELSE IF reqUser(token) = NONE THEN AppError(401)
  ELSE IF ~authorize(roles, reqUser(token)) THEN AppError(403)
  ELSE Continue

\* ------------------------------------------------------ DELETE /users/profile
\* `const user = await User.findByIdAndUpdate(..., {email: ...user.email})`:
\* the update document reads user while its declaration is being initialised
userBinding == "uninitialized"

deleteAccountResponse(token) ==
  IF auth(token) # Continue THEN auth(token)
  ELSE IF userBinding = "uninitialized"
    THEN Response("ReferenceError", errorHandler("AppError", 500))
  ELSE Success(200)

\* the isActive flags the request leaves in the database
deleteAccountStore(active, token) ==
  IF deleteAccountResponse(token).code = 200
  THEN [active EXCEPT ![token.id] = FALSE]
  ELSE active

deleteAccount(token) ==
  /\ isActive' = deleteAccountStore(isActive, token)
  /\ UNCHANGED <<companies, creating, applicationVars, otherVars>>

\* ------------------------------------------------------------ POST /companies
CompanyBodies == {"valid", "noName", "badPhone"}

\* companySchema.index({employer: 1}): an index without the unique option
employerIndexUnique == FALSE

\* Company.findOne({employer})
findCompany(docs, employer) ==
  {i \in 1 .. Len(docs) : docs[i].employer = employer}

\* the route and createCompany up to its lookup: the answer, or Continue
createCompanyChecks(token, body) ==
  IF protect({"employer", "admin"}, token) # Continue
    THEN protect({"employer", "admin"}, token)
  ELSE IF body = "noName" THEN Response("fail", 400)
  ELSE IF body = "badPhone" THEN Response("fail", 400)
  ELSE IF findCompany(companies, reqUser(token)) # {} THEN Response("fail", 400)
  ELSE Continue

\* a create request in flight: before the pre('save') lookup of
\* Company.create ("create") or between that lookup and the insert ("insert")
Creating(employer, stage) == [employer |-> employer, stage |-> stage]

createCompanyBegin(token, body) ==
  /\ IF createCompanyChecks(token, body) # Continue
     THEN UNCHANGED creating
     ELSE /\ Len(companies) + BagCardinality(creating) < MaxCompanies
          /\ creating' =
               creating (+) SetToBag({Creating(reqUser(token), "create")})
  /\ UNCHANGED <<isActive, companies, applicationVars, otherVars>>

\* companySchema.pre('save') of a new document: a second lookup; it fails
\* the save when the employer has a company
createCompanyPreSave(q) ==
  /\ BagIn(q, creating)
  /\ q.stage = "create"
  /\ creating' =
       IF findCompany(companies, q.employer) # {}
       THEN creating (-) SetToBag({q})
       ELSE (creating (-) SetToBag({q}))
            (+) SetToBag({Creating(q.employer, "insert")})
  /\ UNCHANGED <<isActive, companies, applicationVars, otherVars>>

\* the insert of Company.create, under the index on employer
createCompanyInsert(q) ==
  /\ BagIn(q, creating)
  /\ q.stage = "insert"
  /\ creating' = creating (-) SetToBag({q})
  /\ companies' =
       IF employerIndexUnique /\ findCompany(companies, q.employer) # {}
       THEN companies
       ELSE Append(companies, [employer |-> q.employer])
  /\ UNCHANGED <<isActive, applicationVars, otherVars>>

\* ------------------------------------------- PUT /companies/my, /companies/:id
\* req.body of an update: any of the schema's paths, employer among them
UpdateBodies ==
  {[name |-> "Acme"], [phone |-> "badPhone"]}
  \cup {[employer |-> e] : e \in Employers}

\* Company.findByIdAndUpdate(id, req.body, { new: true, runValidators: true }):
\* every path of the body is set on the document
findByIdAndUpdate(docs, id, body) ==
  IF "employer" \in DOMAIN body
  THEN [docs EXCEPT ![id].employer = body.employer]
  ELSE docs

updateCompanyResponse(token, body) ==
  IF protect({"employer", "admin"}, token) # Continue
    THEN protect({"employer", "admin"}, token)
  ELSE IF findCompany(companies, reqUser(token)) = {} THEN Response("fail", 404)
  ELSE IF "phone" \in DOMAIN body /\ ~validPhone(body.phone)
    THEN Response("fail", 400)
  ELSE Success(200)

\* updateCompany: the caller's company, as Company.findOne returns it
updateCompany(token, body) ==
  IF updateCompanyResponse(token, body).code # 200
  THEN UNCHANGED vars
  ELSE LET mine == findCompany(companies, reqUser(token))
           id == CHOOSE i \in mine : \A k \in mine : i <= k
       IN /\ companies' = findByIdAndUpdate(companies, id, body)
          /\ UNCHANGED <<isActive, creating, applicationVars, otherVars>>

updateSpecificCompanyResponse(token, id, body) ==
  IF protect({"employer", "admin"}, token) # Continue
    THEN protect({"employer", "admin"}, token)
  ELSE IF id \notin DOMAIN companies THEN Response("fail", 404)
  ELSE IF /\ role(reqUser(token)) # "admin"
          /\ companies[id].employer # reqUser(token)
    THEN Response("fail", 403)
  ELSE Success(200)

updateSpecificCompany(token, id, body) ==
  IF updateSpecificCompanyResponse(token, id, body).code # 200
  THEN UNCHANGED vars
  ELSE /\ companies' = findByIdAndUpdate(companies, id, body)
       /\ UNCHANGED <<isActive, creating, applicationVars, otherVars>>

\* accounts and companies: the users as registered, or with one account
\* deactivated in the database
InitAccounts ==
  /\ InitApplication
  /\ isActive \in {[u \in Users |-> TRUE], [u \in Users |-> u # "e2"]}
  /\ companies = << >>
  /\ creating = EmptyBag
  /\ scoring = NoScoring
  /\ InitLimiter
  /\ InitReset

NextAccounts ==
  \/ \E t \in Tokens : deleteAccount(t)
  \/ \E t \in Tokens, b \in CompanyBodies : createCompanyBegin(t, b)
  \/ \E q \in BagToSet(creating) : createCompanyPreSave(q)
  \/ \E q \in BagToSet(creating) : createCompanyInsert(q)
  \/ \E t \in Tokens, b \in UpdateBodies : updateCompany(t, b)
  \/ \E t \in Tokens, id \in 1 .. MaxCompanies, b \in UpdateBodies :
       updateSpecificCompany(t, id, b)

SpecAccounts == InitAccounts /\ [][NextAccounts]_vars

\* ------------------------------------------ calculateCompatibilityScore
\* skills entries of an application: name is optional in the schema
SkillEntries ==
  {[name |-> "js"], [name |-> "JS"], [name |-> "sql"], [level |-> "expert"]}

\* experience of an application: totalYears (in tenths of a year, the schema
\* keeps it within 0..50 years) is optional
Experiences ==
  {[previousPositions |-> << >>]} \cup
  {[totalYears |-> y, previousPositions |-> << >>] :
     y \in {0, 20, 21, 49, 105, 150}}

\* sequences over S of length at most n
SeqUpTo(S, n) == UNION {[1 .. k -> S] : k \in 0 .. n}

\* job-requirements objects: with or without skills, with or without
\* experienceLevel
JobRequirements ==
  LET lists == SeqUpTo({"JS", "sql"}, MaxSkills)
      levels == {"entry", "mid", "senior", "executive"}
  IN {[location |-> "remote"]}
     \cup {[skills |-> s] : s \in lists}
     \cup {[experienceLevel |-> l] : l \in levels}
     \cup {[skills |-> s, experienceLevel |-> l] : s \in lists, l \in levels}

\* requiredExp[jobRequirements.experienceLevel] || 0, in years
requiredExp(level) ==
  CASE level = "entry" -> 0
    [] level = "mid" -> 3
    [] level = "senior" -> 7
    [] level = "executive" -> 15
    [] OTHER -> 0

\* this.skills.map(s => s.name.toLowerCase()) throws on an entry without name
mapNamesThrows(skills) ==
  \E k \in 1 .. Len(skills) : "name" \notin DOMAIN skills[k]

\* score after the skills block
skillScore(skills, jobRequirements) ==
  IF "skills" \notin DOMAIN jobRequirements THEN 0
  ELSE LET jobSkills == jobRequirements.skills
           applicantSkills ==
             {toLowerCase(skills[k].name) : k \in 1 .. Len(skills)}
       IN Sum([k \in 1 .. Len(jobSkills) |->
                 IF toLowerCase(jobSkills[k]) \in applicantSkills
                 THEN 10 ELSE 0])

\* what the experience block adds to score
experienceScore(experience, jobRequirements) ==
  IF /\ "experienceLevel" \in DOMAIN jobRequirements
     /\ "totalYears" \in DOMAIN experience
  THEN LET required == requiredExp(jobRequirements.experienceLevel)
       IN IF experience.totalYears >= required * 10 THEN 20
          ELSE IF experience.totalYears >= required * 7 THEN 10
          ELSE 0
  ELSE 0

\* maxScore at the return statement
maxScore(experience, jobRequirements) ==
  (IF "skills" \in DOMAIN jobRequirements
   THEN 10 * Len(jobRequirements.skills) ELSE 0)
  + (IF /\ "experienceLevel" \in DOMAIN jobRequirements
        /\ "totalYears" \in DOMAIN experience
     THEN 20 ELSE 0)

\* Math.round((score / max) * 100) for score >= 0 and max > 0
roundPercent(score, max) == (200 * score + max) \div (2 * max)

calculateScoreOverAllSkills(skills, experience, jobRequirements) ==
  IF "skills" \in DOMAIN jobRequirements /\ mapNamesThrows(skills)
  THEN [error |-> "TypeError"]
  ELSE LET score == skillScore(skills, jobRequirements)
                    + experienceScore(experience, jobRequirements)
           max == maxScore(experience, jobRequirements) + 10 * Len(skills)
       IN [score |-> IF max > 0 THEN roundPercent(score, max) ELSE 0]

calculateScoreTruncated(skills, experience, jobRequirements) ==
  IF "skills" \in DOMAIN jobRequirements /\ mapNamesThrows(skills)
  THEN [error |-> "TypeError"]
  ELSE LET score == skillScore(skills, jobRequirements)
                    + experienceScore(experience, jobRequirements)
           max == maxScore(experience, jobRequirements)
       IN [score |-> IF max > 0 THEN (100 * score) \div max ELSE 0]

\* applicationSchema.methods.calculateCompatibilityScore: the score returned,
\* or the error thrown
calculateCompatibilityScore(skills, experience, jobRequirements) ==
  IF "skills" \in DOMAIN jobRequirements /\ mapNamesThrows(skills)
  THEN [error |-> "TypeError"]
  ELSE LET score == skillScore(skills, jobRequirements)
                    + experienceScore(experience, jobRequirements)
           max == maxScore(experience, jobRequirements)
       IN [score |-> IF max > 0 THEN roundPercent(score, max) ELSE 0]

\* one call of application.calculateCompatibilityScore(jobRequirements)
calculate ==
  /\ scoring.result = << >>
  /\ scoring' =
       [scoring EXCEPT !.result =
          <<calculateCompatibilityScore(scoring.skills, scoring.experience,
                                        scoring.jobRequirements)>>]
  /\ UNCHANGED <<applicationVars, accountVars, limiterVars, resetVars>>

\* application.skills.push(entry): the next call computes the score anew
pushSkill(entry) ==
  /\ Len(scoring.skills) < MaxSkills
  /\ scoring' = [scoring EXCEPT !.skills = Append(@, entry),
                                !.result = << >>]
  /\ UNCHANGED <<applicationVars, accountVars, limiterVars, resetVars>>

\* every application the schema stores, with every job-requirements object
InitScore ==
  /\ InitApplication
  /\ InitAccount
  /\ scoring \in [skills : SeqUpTo(SkillEntries, MaxSkills),
                  experience : Experiences,
                  jobRequirements : JobRequirements,
                  result : {<< >>}]
  /\ InitLimiter
  /\ InitReset

NextScore ==
  \/ calculate
  \/ \E e \in SkillEntries : pushSkill(e)

SpecScore == InitScore /\ [][NextScore]_vars

\* ------------------------------------------------------------ loginLimiter
\* parseInt(process.env.MAX_LOGIN_ATTEMPTS) || 5 and
\* parseInt(process.env.LOGIN_WINDOW_MS) || 15 * 60 * 1000, as configured here
maxAttempts == 2
windowMs == 2

\* loginLimiter's answer for a client: 429 while the count has reached
\* maxAttempts and the window of the first recorded failure is open
loginLimiterResponse(ip) ==
  IF /\ loginAttempts[ip] # << >>
     /\ loginAttempts[ip][1].count >= maxAttempts
     /\ now - loginAttempts[ip][1].firstAttempt < windowMs
  THEN AppError(429)
  ELSE Continue

\* loginLimiter: a full count whose window has passed is deleted; the login
\* attempt goes on to the login handler
loginLimiter(ip) ==
  IF loginLimiterResponse(ip) # Continue
  THEN UNCHANGED vars
  ELSE /\ pendingLogins[ip] + Len(failedLogins[ip]) < MaxLogins
       /\ loginAttempts' =
            IF /\ loginAttempts[ip] # << >>
               /\ loginAttempts[ip][1].count >= maxAttempts
            THEN [loginAttempts EXCEPT ![ip] = << >>]
            ELSE loginAttempts
       /\ pendingLogins' = [pendingLogins EXCEPT ![ip] = @ + 1]
       /\ UNCHANGED <<now, failedLogins, applicationVars, accountVars,
                      scoreVars, resetVars>>

\* recordFailedLogin, after a login attempt failed (lastAttempt is written
\* and never read)
recordFailedLogin(ip) ==
  /\ pendingLogins[ip] > 0
  /\ pendingLogins' = [pendingLogins EXCEPT ![ip] = @ - 1]
  /\ loginAttempts' =
       [loginAttempts EXCEPT ![ip] =
          IF @ = << >> THEN <<[count |-> 1, firstAttempt |-> now]>>
          ELSE <<[@[1] EXCEPT !.count = @ + 1]>>]
  /\ failedLogins' = [failedLogins EXCEPT ![ip] = Append(@, now)]
  /\ UNCHANGED <<now, applicationVars, accountVars, scoreVars, resetVars>>

\* resetLoginAttempts, after a login attempt succeeded
resetLoginAttempts(ip) ==
  /\ pendingLogins[ip] > 0
  /\ pendingLogins' = [pendingLogins EXCEPT ![ip] = @ - 1]
  /\ loginAttempts' = [loginAttempts EXCEPT ![ip] = << >>]
  /\ UNCHANGED <<now, failedLogins, applicationVars, accountVars, scoreVars,
                 resetVars>>

\* time passes
tick ==
  /\ now < MaxTime
  /\ now' = now + 1
  /\ UNCHANGED <<loginAttempts, pendingLogins, failedLogins, applicationVars,
                 accountVars, scoreVars, resetVars>>

NextLimiter ==
  \/ \E ip \in Ips : loginLimiter(ip)
  \/ \E ip \in Ips : recordFailedLogin(ip)
  \/ \E ip \in Ips : resetLoginAttempts(ip)
  \/ tick

SpecLimiter == Init /\ [][NextLimiter]_vars

\* ----------------------------------- POST /auth/forgot-password, reset-password
\* expiresIn: '1h' of the reset token and Date.now() + 60 * 60 * 1000 of
\* passwordResetExpires, in clock readings
resetExpiresIn == 2

\* jwt.sign({ id, purpose: 'password-reset' }, JWT_SECRET, { expiresIn }):
\* the token is determined by its payload and the time it is signed at
signResetToken(id, iat) ==
  [id |-> id, purpose |-> "password-reset", iat |-> iat,
   exp |-> iat + resetExpiresIn, secret |-> "JWT_SECRET"]

\* crypto.createHash('sha256').update(token).digest('hex')
sha256(token) == [sha256 |-> token]

\* jwt.verify(token, process.env.JWT_SECRET) in auth, for a signed token: the
\* Authorization header auth sees
bearer(token) ==
  Token(IF token.secret # "JWT_SECRET" THEN "malformed"
        ELSE IF now >= token.exp THEN "expired"
        ELSE "valid", token.id)

\* forgotPassword: a known email gets a token signed, its hash and expiry are
\* stored on the user; the answer is the same for an unknown email
forgotPassword(email) ==
  IF email \notin DOMAIN users
  THEN UNCHANGED vars
  ELSE LET resetToken == signResetToken(email, now) IN
       /\ Cardinality(issuedTokens \cup {resetToken}) <= MaxTokens
       /\ users' = [users EXCEPT
                      ![email].passwordResetToken = <<sha256(resetToken)>>,
                      ![email].passwordResetExpires = <<now + resetExpiresIn>>]
       /\ issuedTokens' = issuedTokens \cup {resetToken}
       /\ usedTokens' = usedTokens \ {resetToken}
       /\ UNCHANGED <<applicationVars, accountVars, scoreVars, limiterVars>>

\* resetPassword up to its lookup of the user, on given User documents at a
\* given time: 400, or Continue with the user found
resetPasswordLookup(docs, time, token) ==
  IF token.secret # "JWT_SECRET" \/ time >= token.exp THEN AppError(400)
  ELSE IF token.purpose # "password-reset" THEN AppError(400)
  ELSE IF \/ token.id \notin DOMAIN docs
          \/ docs[token.id].passwordResetToken # <<sha256(token)>>
          \/ docs[token.id].passwordResetExpires[1] <= time
    THEN AppError(400)
  ELSE Continue

resetPasswordKeepingToken(token, password) ==
  IF resetPasswordLookup(users, now, token) # Continue
  THEN UNCHANGED vars
  ELSE /\ users' = [users EXCEPT ![token.id].password = password]
       /\ usedTokens' = usedTokens \cup {token}
       /\ UNCHANGED <<issuedTokens, applicationVars, accountVars, scoreVars,
                      limiterVars>>

\* resetPassword: the user found gets the password and loses the stored token
resetPassword(token, password) ==
  IF resetPasswordLookup(users, now, token) # Continue
  THEN UNCHANGED vars
  ELSE /\ users' = [users EXCEPT
                      ![token.id] = [password |-> password,
                                     passwordResetToken |-> << >>,
                                     passwordResetExpires |-> << >>]]
       /\ usedTokens' = usedTokens \cup {token}
       /\ UNCHANGED <<issuedTokens, applicationVars, accountVars, scoreVars,
                      limiterVars>>

\* request tokens: the ones signed so far, an access token, a forged token
NextReset ==
  \/ \E email \in Candidates \cup {"gone"} : forgotPassword(email)
  \/ \E token \in issuedTokens
                  \cup {[signResetToken("c1", 0) EXCEPT !.purpose = NONE],
                        [signResetToken("c1", 0) EXCEPT !.secret = "other"]},
        password \in {"p1", "p2"} : resetPassword(token, password)
  \/ tick

SpecReset == Init /\ [][NextReset]_vars

\* ------------------------------------------------------------------ claims
\* the stored applications of a candidate for a job
AppsOf(c, j) ==
  {i \in DOMAIN applications :
     applications[i].applicant = c /\ applications[i].job = j}

\* request bodies that pass the route's validation and the schema's
ValidBodies ==
  {b \in SubmitBodies :
     /\ validateApplicationWithFiles(b.personalInfo, b.hasResume) = Continue
     /\ validateCreate(b.personalInfo, b.salary)}

Terminal == {"offered", "rejected", "withdrawn"}

\* C1: once a candidate's valid submission for a job is stored, every further
\* valid submission of that candidate for that job is answered 409 and the
\* pair keeps exactly one application
C1_SecondIsConflict ==
  \A i \in DOMAIN applications :
    LET a == applications[i] IN
      /\ AppsOf(a.applicant, a.job) = {i}
      /\ \A b \in ValidBodies :
           createApplicationChecks(a.applicant, a.job, b.personalInfo,
                                   b.hasResume).code = 409

\* C1: a valid submission for a pair that has no application yet is answered
\* 201 and stores the application of that candidate for that job
C1_FirstIsCreated ==
  \A q \in BagToSet(inflight) :
    ( /\ createApplicationInsert(q)
      /\ validateCreate(q.personalInfo, q.salary)
      /\ AppsOf(q.actor, q.job) = {} )
    => /\ createApplicationResult(q).code = 201
       /\ Len(applications') = Len(applications) + 1
       /\ applications'[Len(applications')].applicant = q.actor
       /\ applications'[Len(applications')].job = q.job

C2_RaceLoserGetsConflict ==
  /\ \A c \in Candidates, j \in Jobs : Cardinality(AppsOf(c, j)) <= 1
  /\ \A q \in BagToSet(inflight) :
       (validateCreate(q.personalInfo, q.salary) /\ AppsOf(q.actor, q.job) # {})
       => createApplicationResult(q).code = 409

\* C3 as stated: an application no status change has touched since its
\* creation has status pending and one timeline entry, of status pending
C3_FreshEntryPending ==
  \A i \in DOMAIN applications :
    updates[i] = 0 =>
      /\ applications[i].status = "pending"
      /\ Len(applications[i].timeline) = 1
      /\ applications[i].timeline[1].status = "pending"

\* C3 amended: an application no status change has touched since its creation
\* has status pending and one timeline entry, of status submitted
C3_FreshEntrySubmitted ==
  \A i \in DOMAIN applications :
    updates[i] = 0 =>
      /\ applications[i].status = "pending"
      /\ Len(applications[i].timeline) = 1
      /\ applications[i].timeline[1].status = "submitted"

\* a submission has stored an application that no status change has touched
C3_Witness == \E i \in DOMAIN applications : updates[i] = 0

\* C4: after N successful status changes (update-status or withdraw) the
\* timeline of an application has N + 1 entries
C4_TimelineLength ==
  \A i \in DOMAIN applications :
    Len(applications[i].timeline) = updates[i] + 1

\* C5: the owning applicant's withdraw request is answered 200 exactly when
\* the current status is outside offered, rejected, withdrawn, and with an
\* error otherwise
C5_WithdrawAnswer ==
  \A i \in DOMAIN applications :
    LET a == applications[i]
        r == withdrawApplicationResponse(a.applicant, i)
    IN IF statusDefault(a.status) \in Terminal
       THEN r.code = 400
       ELSE r.code = 200

\* C5: the owning applicant's withdraw sets the status to withdrawn when it is
\* accepted and leaves status and timeline as they were when it is rejected
C5_WithdrawEffect ==
  \A i \in DOMAIN applications :
    withdrawApplication(applications[i].applicant, i) =>
      IF statusDefault(applications[i].status) \in Terminal
      THEN applications' = applications
      ELSE applications'[i].status = "withdrawn"

C6_OthersForbidden ==
  \A i \in DOMAIN applications :
    \A u \in Users \ {applications[i].applicant} :
      withdrawApplicationResponse(u, i).code = 403

\* C6: a step that changes anything is no withdraw request of anyone but the
\* applicant, and a step that moves an application to withdrawn is a withdraw
\* request of its applicant and no update-status request
C6_OnlyApplicantStep ==
  \A i \in DOMAIN applications :
    /\ vars' # vars =>
         \A u \in Users \ {applications[i].applicant} :
           ~withdrawApplication(u, i)
    /\ (applications[i].status # "withdrawn"
        /\ applications'[i].status = "withdrawn")
       => /\ withdrawApplication(applications[i].applicant, i)
          /\ ~\E u \in Users, s \in StatusInputs, n \in NotesInputs :
                updateApplicationStatus(u, i, s, n)

\* C6: only the applicant who owns an application moves it to withdrawn:
\* anyone else's withdraw is refused with 403 and changes nothing, and no
\* update-status request sets the status to withdrawn
C6_OnlyApplicantWithdraws == []C6_OthersForbidden /\ [][C6_OnlyApplicantStep]_vars

\* an application its applicant withdrew straight from pending
C6_Witness ==
  \E i \in DOMAIN applications :
    /\ applications[i].status = "withdrawn"
    /\ updates[i] = 1
    /\ withdrawApplicationResponse("ad", i).code = 403

\* C7: no update-status request of an employer or an admin changes a status
\* that is offered or rejected
C7_TerminalForUpdateStatus ==
  [][\A i \in DOMAIN applications :
       ( /\ applications[i].status \in {"offered", "rejected"}
         /\ \E u \in Employers \cup Admins, s \in StatusInputs, n \in NotesInputs :
              updateApplicationStatus(u, i, s, n) )
       => applications'[i].status = applications[i].status]_vars

\* C8: a withdrawn application stays withdrawn and stays stored
C8_WithdrawnIsFinal ==
  [][\A i \in DOMAIN applications :
       applications[i].status = "withdrawn"
       => /\ Len(applications') >= Len(applications)
          /\ applications'[i].status = "withdrawn"]_vars

\* C9: an employer who does not own an application's job is answered 403 when
\* listing the job's applications and when updating the application's status
C9_NonOwnerForbidden ==
  \A i \in DOMAIN applications :
    \A u \in Employers :
      postedBy(applications[i].job) # u =>
        /\ getJobApplicationsResponse(u, applications[i].job).code = 403
        /\ \A s \in allowedStatuses :
             updateApplicationStatusResponse(u, i, s).code = 403

\* C10: the employer who owns the job of a pending application sets it to
\* shortlisted with notes: the request is answered 200 and the application
\* then has status shortlisted and a timeline of 2 entries
C10_OwnerShortlists ==
  \A i \in DOMAIN applications :
    (applications[i].status = "pending" /\ updates[i] = 0) =>
      LET owner == postedBy(applications[i].job)
          after == updateStatus(applications[i], "shortlisted",
                                "strong portfolio", owner)
      IN /\ updateApplicationStatusResponse(owner, i, "shortlisted").code = 200
         /\ after.status = "shortlisted"
         /\ Len(after.timeline) = 2

\* the status values an update-status request may carry, absent included
StatusRequests == StatusInputs \cup {"interviewed", "bogus"}

\* C11: for an admin, update-status answers 200 exactly when the new status
\* is present and one of pending, reviewing, shortlisted, interviewed, offered,
\* rejected, and every other request is answered 400
C11_StatusValidated ==
  \A i \in DOMAIN applications :
    \A u \in Admins, s \in StatusRequests :
      LET r == updateApplicationStatusResponse(u, i, s)
      IN IF s \in allowedStatuses THEN r.code = 200 ELSE r.code = 400

\* seq p is a prefix of seq t
IsPrefix(p, t) == Len(p) <= Len(t) /\ SubSeq(t, 1, Len(p)) = p

\* C12: every stored application has at least one timeline entry
C12_TimelineNonEmpty ==
  \A i \in DOMAIN applications : Len(applications[i].timeline) >= 1

\* C12: every step keeps the stored applications and the timeline each had
\* before the step is a prefix of the timeline it has after it
C12_TimelinePrefixStep ==
  /\ Len(applications') >= Len(applications)
  /\ \A i \in DOMAIN applications :
       IsPrefix(applications[i].timeline, applications'[i].timeline)

C13_FirstFailureWins ==
  \A u \in Users, j \in JobIds, b \in SubmitBodies :
    LET r == createApplicationChecks(u, j, b.personalInfo, b.hasResume)
    IN IF role(u) # "candidate" THEN r.code = 403
       ELSE IF j \notin Jobs THEN r.code = 404
       ELSE IF AppsOf(u, j) # {} THEN r.code = 409
       ELSE IF ~b.hasResume THEN r.code = 400
       ELSE IF b.personalInfo = "blankName" THEN r.code = 400
       ELSE r = Continue

\* the personalInfo values a submit request may carry, absent included
PersonalInfos == {"valid", "blankName", "badPhone", NONE}

\* C14: a candidate's submit request without a resume file is answered 400
\* whatever its job and personal info are
C14_NoResumeAnswer ==
  \A c \in Candidates, j \in JobIds, pi \in PersonalInfos :
    createApplicationChecks(c, j, pi, FALSE).code = 400

\* C14: no step that changes anything (an application, a back-reference, a
\* request reaching the insert) is a candidate's submit without a resume file
C14_NoResumeStep ==
  vars' # vars =>
    \A c \in Candidates, j \in JobIds, pi \in PersonalInfos,
       sal \in {NONE, "5000"} :
      ~createApplicationBegin(c, j, pi, << >>, sal)

\* C14: submitting without a resume always fails with 400 and creates nothing
C14_NoResumeRejected == []C14_NoResumeAnswer /\ [][C14_NoResumeStep]_vars

\* a candidate with a stored application whose resubmission without a resume
\* is answered 400 by the resume check, not 409 by the lookup
C14_Witness ==
  \E i \in DOMAIN applications :
    /\ createApplicationChecks(applications[i].applicant, applications[i].job,
                               "valid", FALSE).code = 400
    /\ createApplicationChecks(applications[i].applicant, applications[i].job,
                               "valid", TRUE).code = 409

\* the files the stored applications refer to
RECURSIVE FilesOfApplications(_)
FilesOfApplications(apps) ==
  IF apps = << >> THEN EmptyBag
  ELSE SeqToBag(Head(apps).files) (+) FilesOfApplications(Tail(apps))

\* the files of the requests between lookup and insert
RECURSIVE FilesInFlight(_)
FilesInFlight(reqs) ==
  IF BagToSet(reqs) = {} THEN EmptyBag
  ELSE LET q == CHOOSE x \in BagToSet(reqs) : TRUE
       IN SeqToBag(q.files) (+) FilesInFlight(reqs (-) SetToBag({q}))

\* as many copies of f as a bag holds, none when it holds none
Copies(f, bag) == IF BagIn(f, bag) THEN CopiesIn(f, bag) ELSE 0

\* C15: every stored file belongs to a stored application or to a request
\* that is not answered yet: no answered, failed request has a file on storage
C15_NoOrphans ==
  \A f \in BagToSet(disk) :
    Copies(f, disk) =
      Copies(f, FilesOfApplications(applications))
      + Copies(f, FilesInFlight(inflight))

\* C15: a submit request whose insert fails has all its files deleted
C15_FailedInsertCleans ==
  \A q \in BagToSet(inflight) :
    (createApplicationInsert(q) /\ createApplicationResult(q).code >= 400)
    => disk' = disk (-) SeqToBag(q.files)

\* C15: no failed submit request leaves a stored file behind
C15_FilesCleaned == []C15_NoOrphans /\ [][C15_FailedInsertCleans]_vars

\* a request with files on storage whose insert is about to fail on the
\* unique index, next to the stored application that won the race
C15_Witness ==
  \E q \in BagToSet(inflight) :
    /\ createApplicationResult(q).code = 500
    /\ q.files # << >>
    /\ \A k \in 1 .. Len(q.files) : BagIn(q.files[k], disk)
    /\ applications # << >>

\* single file parts of every slot, declared type and extension
TestFiles ==
  {File(f, m, e, FALSE) :
     f \in Slots,
     m \in {"application/pdf", "image/png", "application/x-msdownload"},
     e \in {".pdf", ".PDF", ".png", ".exe", ".Exe"}}

\* C16: a candidate's submit carrying one file is refused with
\* INVALID_FILE_TYPE (400) exactly when the file's MIME type or its
\* lower-cased extension is outside the allow-list of its slot
C16_BothChecks ==
  \A c \in Candidates, j \in JobIds, file \in TestFiles :
    LET r == submitResponse(c, j, "valid", <<file>>)
        listed == /\ file.mimetype \in allowedMimeTypes(file.field)
                  /\ toLowerCase(file.ext) \in allowedExtensions(file.field)
    IN IF listed THEN r.err # "INVALID_FILE_TYPE"
       ELSE r = Response("INVALID_FILE_TYPE", 400)

\* C16: no step that changes anything (an application, a back-reference, a
\* stored file, a request reaching the insert) is a submit whose file is
\* outside the allow-list of its slot
C16_RejectedBeforeWrite ==
  vars' # vars =>
    \A c \in Candidates, j \in JobIds, file \in TestFiles :
      ~fileFilter(file) =>
        ~createApplicationBegin(c, j, "valid", <<file>>, NONE)

\* C16: a file is accepted iff MIME type and extension are both listed, and a
\* rejected file is refused before anything is written
C16_FileTypeFilter == []C16_BothChecks /\ [][C16_RejectedBeforeWrite]_vars

\* with an application and its files stored, a second candidate's resume
\* named .exe but declared application/pdf is refused with INVALID_FILE_TYPE
C16_Witness ==
  /\ applications # << >>
  /\ disk # EmptyBag
  /\ \E c \in Candidates :
       /\ \A i \in DOMAIN applications : applications[i].applicant # c
       /\ submitResponse(c, "j1", "valid",
                         <<File("resume", "application/pdf", ".exe", FALSE)>>)
            = Response("INVALID_FILE_TYPE", 400)

\* C17: file intake accepts one resume, at most one portfolio and up to five
\* additionalDocuments, each of an allowed type and size
C17_CountsAccepted ==
  \A p \in 0 .. 1, a \in 0 .. 5 :
    LET files == <<Pdf("resume")>>
                 \o [k \in 1 .. p |-> Pdf("portfolio")]
                 \o [k \in 1 .. a |-> Pdf("additionalDocuments")]
    IN \A c \in Candidates :
         submitResponse(c, "j1", "valid", files).err
           \notin {"LIMIT_FILE_COUNT", "LIMIT_UNEXPECTED_FILE",
                    "LIMIT_FILE_SIZE", "INVALID_FILE_TYPE"}

\* the role lists of the protected routes
RouteRoles == {{"candidate", "admin"}, {"employer", "admin"}}

\* a verified, unexpired token of a stored, active user
Authentic(t) == t.kind = "valid" /\ t.id \in Users /\ isActive[t.id]

\* C18: a protected route answers 401 and attaches no user when the token is
\* missing, malformed, invalid or expired or its user is gone or deactivated;
\* it answers 403 when the token is good and the user's role is not allowed
C18_AuthAnswers ==
  \A t \in Tokens, roles \in RouteRoles :
    IF ~Authentic(t)
    THEN protect(roles, t) = AppError(401) /\ reqUser(t) = NONE
    ELSE IF role(t.id) \notin roles THEN protect(roles, t) = AppError(403)
    ELSE protect(roles, t) = Continue

\* C18: no step that changes anything is a request with a bad token, or a
\* create-company request of a user whose role the route does not allow
C18_NoHandlerStep ==
  vars' # vars =>
    \A t \in Tokens :
      /\ ~Authentic(t) =>
           /\ ~deleteAccount(t)
           /\ \A b \in CompanyBodies : ~createCompanyBegin(t, b)
      /\ (Authentic(t) /\ role(t.id) \notin {"employer", "admin"}) =>
           \A b \in CompanyBodies : ~createCompanyBegin(t, b)

C19_DeleteDeactivates ==
  \A u \in Users :
    isActive[u] =>
      LET t == Token("valid", u)
          after == deleteAccountStore(isActive, t)
      IN /\ deleteAccountResponse(t).code = 200
         /\ after[u] = FALSE
         /\ authWith(after, t) = AppError(401)

\* C20: at most one company is stored per employer
C20_OneCompanyPerEmployer ==
  \A e \in Users : Cardinality(findCompany(companies, e)) <= 1

\* the applications in an actor's scope: a candidate's own, those to the jobs
\* an employer posted, all of them for an admin
StatsScope(u) ==
  {i \in DOMAIN applications :
     \/ role(u) = "candidate" /\ applications[i].applicant = u
     \/ role(u) = "employer" /\ applications[i].job \in Jobs
          /\ postedBy(applications[i].job) = u
     \/ role(u) = "admin"}

\* the count a stats object reports for a status, 0 when it reports none
ReportedCount(stats, s) ==
  IF s \in DOMAIN stats THEN stats[s]
  ELSE IF (s \o "Applications") \in DOMAIN stats
    THEN stats[s \o "Applications"]
  ELSE 0

\* C21: the statistics answered to an actor have the number of applications
\* in the actor's scope as total, and their per-status counts sum to that total
C21_StatsInScope ==
  \A u \in Users, strictQuery \in BOOLEAN :
    LET stats == getApplicationStatsResponse(u, strictQuery)
        total == IF "total" \in DOMAIN stats THEN stats.total
                 ELSE stats.totalApplications
        statuses == <<"pending", "reviewing", "shortlisted", "interviewed",
                      "offered", "rejected", "withdrawn">>
    IN /\ total = Cardinality(StatsScope(u))
       /\ Sum([k \in 1 .. 7 |-> ReportedCount(stats, statuses[k])]) = total

\* the score scoring's application gets for scoring's job requirements
CurrentScore(s) ==
  calculateCompatibilityScore(s.skills, s.experience, s.jobRequirements)

\* the entry names one of the job's required skills, whatever the case
IsRequiredSkill(entry, jobRequirements) ==
  /\ "name" \in DOMAIN entry
  /\ "skills" \in DOMAIN jobRequirements
  /\ \E k \in 1 .. Len(jobRequirements.skills) :
       toLowerCase(jobRequirements.skills[k]) = toLowerCase(entry.name)

StatedScore(skills, experience, job, needYears) ==
  LET jobSkills == IF "skills" \in DOMAIN job THEN job.skills ELSE << >>
      listed(k) == \E n \in 1 .. Len(skills) :
                     toLowerCase(skills[n].name) = toLowerCase(jobSkills[k])
      hasYears == "totalYears" \in DOMAIN experience
      levelApplies == /\ "experienceLevel" \in DOMAIN job
                      /\ needYears => hasYears
      threshold == CASE job.experienceLevel = "entry" -> 0
                     [] job.experienceLevel = "mid" -> 3
                     [] job.experienceLevel = "senior" -> 7
                     [] job.experienceLevel = "executive" -> 15
      possible == 10 * Len(jobSkills) + (IF levelApplies THEN 20 ELSE 0)
      earned ==
        10 * Cardinality({k \in 1 .. Len(jobSkills) : listed(k)})
        + (IF levelApplies /\ hasYears
           THEN IF experience.totalYears >= 10 * threshold THEN 20
                ELSE IF 10 * experience.totalYears >= 70 * threshold THEN 10
                ELSE 0
           ELSE 0)
  IN IF possible = 0 THEN 0
     ELSE CHOOSE n \in 0 .. 100 :
            2 * n * possible - possible <= 200 * earned
            /\ 200 * earned < 2 * n * possible + possible

C26_NeverThrows == "score" \in DOMAIN CurrentScore(scoring)

C25_RollingWindow ==
  \A ip \in Ips, start \in 0 .. MaxTime :
    Cardinality({k \in 1 .. Len(failedLogins[ip]) :
                   /\ start <= failedLogins[ip][k]
                   /\ failedLogins[ip][k] < start + windowMs})
      <= maxAttempts

\* C27: no token signed by forgot-password gets a request past auth
C27_ResetTokenNotBearer ==
  \A token \in issuedTokens : authWith(isActive, bearer(token)) # Continue

\* C28: a token that has reset a password, and has not been signed again
\* since, is refused by reset-password
C28_UsedTokenRefused ==
  \A token \in usedTokens :
    resetPasswordLookup(users, now, token) # Continue

\* C28: when forgot-password signs a token for a user, every other token
\* signed for that user is refused by reset-password from then on
C28_NewTokenSupersedes ==
  \A email \in DOMAIN users :
    (vars' # vars /\ forgotPassword(email)) =>
      \A token \in issuedTokens :
        (token.id = email /\ token # signResetToken(email, now)) =>
          resetPasswordLookup(users', now', token) # Continue

\* C28: a token reset-password refuses is accepted again only after
\* forgot-password has signed that very token
C28_RefusedUntilSigned ==
  \A token \in issuedTokens :
    ( /\ resetPasswordLookup(users, now, token) # Continue
      /\ resetPasswordLookup(users', now', token) = Continue )
    => /\ forgotPassword(token.id)
       /\ token = signResetToken(token.id, now)

C29_LastEntryIsStatus ==
  \A i \in DOMAIN applications :
    updates[i] >= 1 =>
      LET timeline == applications[i].timeline
      IN timeline[Len(timeline)].status = statusDefault(applications[i].status)

\* C30: no update of a company, through PUT /companies/my or
\* PUT /companies/:id, changes the employer of a stored company
C30_EmployerUnchanged ==
  [][\A i \in DOMAIN companies :
       \A t \in Tokens, b \in UpdateBodies :
         (updateCompany(t, b) \/ updateSpecificCompany(t, i, b)) =>
           companies'[i].employer = companies[i].employer]_vars

====
